---- MODULE Spec2Model ----
(***************************************************************************)
(* Model of tensorcircuit/cloud/apis.py: the default provider/device       *)
(* context, the token store with its persisted file, and the provider      *)
(* dispatch operations.                                                    *)
(*                                                                         *)
(* Python strings are sequences of atoms; an atom is a run of characters   *)
(* that contains no separator, or one of the two separators.  String       *)
(* concatenation is \o and str.split is computed by Split.  Secrets are    *)
(* sequences of code points, so that the utf-8 and base64 conversions of   *)
(* the token file are computed, not assumed.                               *)
(***************************************************************************)
EXTENDS Integers, Sequences, FiniteSets, TLC

VARIABLES mods, default_provider, default_device, saved_token, authfile, last

vars == <<mods, default_provider, default_device, saved_token, authfile, last>>

-----------------------------------------------------------------------------
(* Bounds of the model *)

MaxTokens == 2

-----------------------------------------------------------------------------
(* Strings *)

sep == <<"::">>
sep2 == <<"~~">>

RECURSIVE SplitFrom(_, _, _, _)
SplitFrom(s, d, i, cur) ==
    IF i > Len(s) THEN <<cur>>
    ELSE IF s[i] = d[1] THEN <<cur>> \o SplitFrom(s, d, i + 1, <<>>)
    ELSE SplitFrom(s, d, i + 1, Append(cur, s[i]))

\* str.split(d): the list of the pieces of s between occurrences of d
Split(s, d) == SplitFrom(s, d, 1, <<>>)

-----------------------------------------------------------------------------
(* Python values *)

None == [kind |-> "None"]
Str(s) == [kind |-> "str", s |-> s]
ProviderObj(name) == [kind |-> "Provider", name |-> name]
DeviceObj(name, provider) == [kind |-> "Device", name |-> name, provider |-> provider]
TaskObj(id, device) == [kind |-> "Task", id |-> id, device |-> device]
DictObj(d) == [kind |-> "dict", d |-> d]

Ok(v) == [err |-> "none", val |-> v]
Raise(e) == [err |-> e, val |-> None]

package_name == "tensorcircuit"
thismodule == <<"tensorcircuit", ".cloud.apis">>
avail_providers == {<<"tencent">>, <<"local">>}

-----------------------------------------------------------------------------
(* utf-8 and base64, as used by b64encode_s and b64decode_s *)

\* str.encode("utf-8") for code points below 2048
RECURSIVE Utf8Encode(_)
Utf8Encode(s) ==
    IF s = <<>> THEN <<>>
    ELSE LET c == Head(s) IN
         (IF c < 128 THEN <<c>> ELSE <<192 + (c \div 64), 128 + (c % 64)>>)
         \o Utf8Encode(Tail(s))

\* bytes.decode("utf-8"): a sequence of code points, or UnicodeDecodeError
RECURSIVE Utf8Decode(_)
Utf8Decode(b) ==
    IF b = <<>> THEN Ok(<<>>)
    ELSE LET c == Head(b) IN
         IF c < 128 THEN
             LET r == Utf8Decode(Tail(b)) IN
             IF r.err # "none" THEN r ELSE Ok(<<c>> \o r.val)
         ELSE IF c >= 194 /\ c < 224 /\ Len(b) >= 2 /\ b[2] >= 128 /\ b[2] < 192 THEN
             LET r == Utf8Decode(Tail(Tail(b))) IN
             IF r.err # "none" THEN r
             ELSE Ok(<<(c - 192) * 64 + (b[2] - 128)>> \o r.val)
         ELSE Raise("TokenStoreCorrupt")

Pad == 64

\* base64.b64encode: sextets 0..63, and Pad for "="
RECURSIVE B64Encode(_)
B64Encode(b) ==
    IF b = <<>> THEN <<>>
    ELSE IF Len(b) = 1 THEN
        <<b[1] \div 4, (b[1] % 4) * 16, Pad, Pad>>
    ELSE IF Len(b) = 2 THEN
        <<b[1] \div 4, (b[1] % 4) * 16 + (b[2] \div 16), (b[2] % 16) * 4, Pad>>
    ELSE
        <<b[1] \div 4, (b[1] % 4) * 16 + (b[2] \div 16),
          (b[2] % 16) * 4 + (b[3] \div 64), b[3] % 64>>
        \o B64Encode(SubSeq(b, 4, Len(b)))

\* base64.b64decode: the bytes, or binascii.Error on incorrect padding
RECURSIVE B64Decode(_)
B64Decode(e) ==
    IF e = <<>> THEN Ok(<<>>)
    ELSE IF Len(e) < 4 \/ e[1] = Pad \/ e[2] = Pad THEN Raise("TokenStoreCorrupt")
    ELSE IF e[3] = Pad THEN
        IF e[4] = Pad
        THEN Ok(<<e[1] * 4 + (e[2] \div 16)>>)
        ELSE Raise("TokenStoreCorrupt")
    ELSE IF e[4] = Pad THEN
        Ok(<<e[1] * 4 + (e[2] \div 16), (e[2] % 16) * 16 + (e[3] \div 4)>>)
    ELSE
        LET r == B64Decode(SubSeq(e, 5, Len(e))) IN
        IF r.err # "none" THEN r
        ELSE Ok(<<e[1] * 4 + (e[2] \div 16), (e[2] % 16) * 16 + (e[3] \div 4),
                  (e[3] % 4) * 64 + e[4]>> \o r.val)

b64encode_s(s) == B64Encode(Utf8Encode(s))

\* b64decode_s that takes every byte for a code point
b64decode_s_NoUtf8(s) == B64Decode(s)

b64decode_s(s) ==
    LET b == B64Decode(s) IN
    IF b.err # "none" THEN b ELSE Utf8Decode(b.val)

-----------------------------------------------------------------------------
(* Provider, Device and Task of the abstraction module *)

\* Provider.from_name on a value that is not None
Provider_from_name(x) ==
    IF x.kind = "Provider" THEN Ok(x)
    ELSE IF x.kind = "str" THEN Ok(ProviderObj(x.s))
    ELSE Raise("UnknownProviderFormat")

\* the text after the first separator of a name that has one
AfterSep(name) ==
    LET i == CHOOSE j \in 1..Len(name) :
                 name[j] = sep[1] /\ \A k \in 1..(j - 1) : name[k] # sep[1]
    IN SubSeq(name, i + 1, Len(name))

\* Device(name, provider): dflt is the default provider read when neither the
\* name nor the argument gives one
Device(name, provider, dflt) ==
    IF Len(Split(name, sep)) > 1 THEN
        LET prefix == ProviderObj(Split(name, sep)[1]) IN
        IF provider = None THEN Ok(DeviceObj(AfterSep(name), prefix))
        ELSE LET p == Provider_from_name(provider) IN
             IF p.err # "none" THEN p
             ELSE IF p.val.name # prefix.name THEN Raise("ProviderDeviceMismatch")
             ELSE Ok(DeviceObj(AfterSep(name), prefix))
    ELSE
        IF provider = None THEN Ok(DeviceObj(name, dflt))
        ELSE LET p == Provider_from_name(provider) IN
             IF p.err # "none" THEN p ELSE Ok(DeviceObj(name, p.val))

\* Device.from_name on a value that is not None
Device_from_name(device, provider, dflt) ==
    IF device.kind = "Device" THEN Ok(device)
    ELSE IF device.kind = "str" THEN Device(device.s, provider, dflt)
    ELSE Raise("UnknownDeviceFormat")

\* Task(id, device)
Task(id, device) == TaskObj(id, device)

-----------------------------------------------------------------------------
(* The default context: default_provider and default_device are attributes  *)
(* of every loaded module of the package.                                   *)

\* module.startswith(package_name), for a module name given as its atoms
StartsWithPackage(m) == Len(m) >= 1 /\ m[1] = package_name

\* the result of set_provider(provider, set_global) read from state dp
set_provider_ret(provider, dp) ==
    Provider_from_name(IF provider = None THEN dp[thismodule] ELSE provider)

\* Broadcast that sets the attribute of thismodule only
Broadcast_ThisModuleOnly(attr, v) ==
    [m \in DOMAIN attr |-> IF m = thismodule THEN v ELSE attr[m]]

\* the module attributes after the loop of set_provider / set_device
Broadcast(attr, v) ==
    [m \in DOMAIN attr |-> IF StartsWithPackage(m) THEN v ELSE attr[m]]

\* get_provider that gives the provider of line 20 whatever was set since
get_provider_Startup(dp) == Ok(ProviderObj(<<"tencent">>))

get_provider(dp) == set_provider_ret(None, dp)

\* set_device that takes the default provider before it looks at the name
set_device_ret_DefaultFirst(provider, device, dp, dd) ==
    LET swap == provider # None /\ device = None
        provider1 == IF swap THEN None ELSE provider
        device1 == IF swap THEN provider ELSE device
        device2 == IF device1 = None THEN dd[thismodule] ELSE device1
        provider2 == IF provider1 = None THEN get_provider(dp).val ELSE provider1
    IN
    IF device2.kind = "str"
    THEN Device(device2.s, provider2, dp[thismodule])
    ELSE Device_from_name(device2, provider2, dp[thismodule])

\* the result of set_device(provider, device, set_global)
set_device_ret(provider, device, dp, dd) ==
    LET swap == provider # None /\ device = None
        provider1 == IF swap THEN None ELSE provider
        device1 == IF swap THEN provider ELSE device
    IN
    IF device1 = None /\ provider1 # None
    THEN Raise("AmbiguousDeviceSpecification")
    ELSE
    LET device2 == IF device1 = None THEN dd[thismodule] ELSE device1 IN
    IF device2.kind = "str" THEN
        IF Len(Split(device2.s, sep)) > 1
        THEN Device(device2.s, provider1, dp[thismodule])
        ELSE IF provider1 = None
             THEN LET p == get_provider(dp) IN
                  IF p.err # "none" THEN p
                  ELSE Device(device2.s, p.val, dp[thismodule])
             ELSE Device(device2.s, provider1, dp[thismodule])
    ELSE
        IF provider1 = None
        THEN LET p == get_provider(dp) IN
             IF p.err # "none" THEN p
             ELSE Device_from_name(device2, p.val, dp[thismodule])
        ELSE Device_from_name(device2, provider1, dp[thismodule])

get_device(dp, dd) == set_device_ret(None, None, dp, dd)

\* the state a call started in
Pre == [saved |-> saved_token, f |-> authfile,
        dp |-> default_provider, dd |-> default_device]

NoPrev == [op |-> "none", cached |-> FALSE, err |-> "none", token |-> None]

\* the record of the last call: its arguments, its outcome, the backend calls it
\* made, the state it started in and, for an import, the call before it
CallRec(op, provider, device, token, cached, set_global, task, err, ret, calls, prev, pre) ==
    [op |-> op, provider |-> provider, device |-> device, token |-> token,
     cached |-> cached, set_global |-> set_global, task |-> task,
     err |-> err, ret |-> ret, calls |-> calls, prev |-> prev, pre |-> pre]

Call(op, provider, device, token, cached, set_global, task, err, ret, calls) ==
    CallRec(op, provider, device, token, cached, set_global, task, err, ret, calls,
            IF op = "import"
            THEN [op |-> last.op, cached |-> last.cached, err |-> last.err,
                  token |-> last.token]
            ELSE NoPrev,
            Pre)

set_provider(provider, set_global) ==
    LET r == set_provider_ret(provider, default_provider) IN
    /\ default_provider' =
           IF r.err = "none" /\ set_global
           THEN Broadcast(default_provider, r.val) ELSE default_provider
    /\ last' = Call("set_provider", provider, None, None, FALSE, set_global,
                    None, r.err, r.val, <<>>)
    /\ UNCHANGED <<mods, default_device, saved_token, authfile>>

\* set_device that sets the default device whatever set_global is
set_device_AlwaysGlobal(provider, device, set_global) ==
    LET r == set_device_ret(provider, device, default_provider, default_device) IN
    /\ default_device' =
           IF r.err = "none"
           THEN Broadcast(default_device, r.val) ELSE default_device
    /\ last' = Call("set_device", provider, device, None, FALSE, set_global,
                    None, r.err, r.val, <<>>)
    /\ UNCHANGED <<mods, default_provider, saved_token, authfile>>

set_device(provider, device, set_global) ==
    LET r == set_device_ret(provider, device, default_provider, default_device) IN
    /\ default_device' =
           IF r.err = "none" /\ set_global
           THEN Broadcast(default_device, r.val) ELSE default_device
    /\ last' = Call("set_device", provider, device, None, FALSE, set_global,
                    None, r.err, r.val, <<>>)
    /\ UNCHANGED <<mods, default_provider, saved_token, authfile>>

-----------------------------------------------------------------------------
(* The token store: saved_token in memory and the file at authpath *)

Absent == [kind |-> "absent"]
JsonFile(obj) == [kind |-> "json", obj |-> obj]
Garbage == [kind |-> "garbage"]

EmptyDict == [k \in {} |-> <<>>]

\* LoadFile that takes a file it cannot decode for an empty one
LoadFile_Lenient(f) ==
    IF f.kind # "json" THEN Ok(DictObj(EmptyDict))
    ELSE IF \E k \in DOMAIN f.obj : b64decode_s(f.obj[k]).err # "none"
         THEN Ok(DictObj(EmptyDict))
         ELSE Ok(DictObj([k \in DOMAIN f.obj |-> b64decode_s(f.obj[k]).val]))

\* json.load and the decoding of every value (lines 142-144)
LoadFile(f) ==
    IF f.kind # "json" THEN Raise("TokenStoreCorrupt")
    ELSE IF \E k \in DOMAIN f.obj : b64decode_s(f.obj[k]).err # "none"
         THEN Raise("TokenStoreCorrupt")
         ELSE Ok(DictObj([k \in DOMAIN f.obj |-> b64decode_s(f.obj[k]).val]))

\* Update with the entries of file_token kept on a collision
Update_FileWins(file_token, saved) ==
    [k \in (DOMAIN file_token) \cup (DOMAIN saved) |->
        IF k \in DOMAIN file_token THEN file_token[k] ELSE saved[k]]

\* Update that forgets the entries of saved
Update_DropsSaved(file_token, saved) == file_token

\* file_token.update(saved): the entries of saved replace those of file_token
Update(file_token, saved) ==
    [k \in (DOMAIN file_token) \cup (DOMAIN saved) |->
        IF k \in DOMAIN saved THEN saved[k] ELSE file_token[k]]

\* DumpFile that writes the secrets as they are
DumpFile_Raw(saved) == JsonFile(saved)

\* the file written by lines 161-164
DumpFile(saved) == JsonFile([k \in DOMAIN saved |-> b64encode_s(saved[k])])

\* TokenKey without the name of the device
TokenKey_NoDevice(p, d) == p.name \o sep

\* the key of a token given for a resolved provider and device
TokenKey(p, d) ==
    IF d = None THEN p.name \o sep ELSE p.name \o sep \o d.name

\* provider and device as resolved by lines 132-136 and 176-180
ResolvePD(provider, device, dp) ==
    LET p == Provider_from_name(IF provider = None THEN dp[thismodule] ELSE provider) IN
    IF p.err # "none" THEN p
    ELSE IF device = None THEN Ok([p |-> p.val, d |-> None])
    ELSE LET d == Device_from_name(device, p.val, dp[thismodule]) IN
         IF d.err # "none" THEN d ELSE Ok([p |-> p.val, d |-> d.val])

\* set_token that reads the file whatever cached is
set_token_ret_AlwaysLoads(token, provider, device, cached, dp, saved, f) ==
    LET pd == ResolvePD(provider, device, dp) IN
    IF pd.err # "none" THEN pd
    ELSE
    LET loaded == IF token = None /\ f.kind # "absent"
                  THEN LoadFile(f) ELSE Ok(DictObj(EmptyDict))
    IN
    IF loaded.err # "none" THEN loaded
    ELSE
    LET saved1 == IF token = None
                  THEN Update(loaded.val.d, saved)
                  ELSE Update(saved, [k \in {TokenKey(pd.val.p, pd.val.d)} |-> token.s])
    IN Ok([saved |-> saved1, f |-> IF cached THEN DumpFile(saved1) ELSE f])

\* set_token: the new saved_token and file, or the exception raised
set_token_ret(token, provider, device, cached, dp, saved, f) ==
    LET pd == ResolvePD(provider, device, dp) IN
    IF pd.err # "none" THEN pd
    ELSE
    LET loaded == IF token = None /\ cached /\ f.kind # "absent"
                  THEN LoadFile(f) ELSE Ok(DictObj(EmptyDict))
    IN
    IF loaded.err # "none" THEN loaded
    ELSE
    LET saved1 == IF token = None
                  THEN Update(loaded.val.d, saved)
                  ELSE Update(saved, [k \in {TokenKey(pd.val.p, pd.val.d)} |-> token.s])
    IN Ok([saved |-> saved1, f |-> IF cached THEN DumpFile(saved1) ELSE f])

set_token(token, provider, device, cached) ==
    LET r == set_token_ret(token, provider, device, cached,
                           default_provider, saved_token, authfile) IN
    /\ r.err = "none" => Cardinality(DOMAIN r.val.saved) <= MaxTokens
    /\ saved_token' = IF r.err = "none" THEN r.val.saved ELSE saved_token
    /\ authfile' = IF r.err = "none" THEN r.val.f ELSE authfile
    /\ last' = Call("set_token", provider, device, token, cached, FALSE, None,
                    r.err, IF r.err = "none" THEN DictObj(r.val.saved) ELSE None, <<>>)
    /\ UNCHANGED <<mods, default_provider, default_device>>

\* get_token that falls back to the token of the provider
get_token_ret_Fallback(provider, device, dp, saved) ==
    LET pd == ResolvePD(provider, device, dp) IN
    IF pd.err # "none" THEN pd
    ELSE LET target == IF pd.val.d # None
                       THEN (pd.val.p.name \o sep) \o pd.val.d.name
                       ELSE pd.val.p.name \o sep
         IN IF target \in DOMAIN saved THEN Ok(Str(saved[target]))
            ELSE IF (pd.val.p.name \o sep) \in DOMAIN saved
                 THEN Ok(Str(saved[pd.val.p.name \o sep]))
                 ELSE Ok(None)

\* get_token: the token stored under the exact key, or None
get_token_ret(provider, device, dp, saved) ==
    LET pd == ResolvePD(provider, device, dp) IN
    IF pd.err # "none" THEN pd
    ELSE LET target == IF pd.val.d # None
                       THEN (pd.val.p.name \o sep) \o pd.val.d.name
                       ELSE pd.val.p.name \o sep
         IN IF target \in DOMAIN saved THEN Ok(Str(saved[target])) ELSE Ok(None)

get_token(provider, device) ==
    LET r == get_token_ret(provider, device, default_provider, saved_token) IN
    /\ last' = Call("get_token", provider, device, None, FALSE, FALSE, None,
                    r.err, r.val, <<>>)
    /\ UNCHANGED <<mods, default_provider, default_device, saved_token, authfile>>

\* another program rewrites or removes the file at authpath
ExternalFile(f) ==
    /\ authfile' = f
    /\ last' = Call("external", None, None, None, FALSE, FALSE, None, "none", None, <<>>)
    /\ UNCHANGED <<mods, default_provider, default_device, saved_token>>

-----------------------------------------------------------------------------
(* Dispatch to the backends *)

\* provider.get_token() and device.get_token() of the abstraction module
Provider_get_token(p, dp, saved) == get_token_ret(p, None, dp, saved)
Device_get_token(d, dp, saved) == get_token_ret(d.provider, d, dp, saved)

\* task.get_device(): the attached device; without one it fails or gives None
Task_get_device(task, absent) ==
    IF task.device # None THEN Ok(task.device)
    ELSE IF absent = "raise" THEN Raise("NoDevice") ELSE Ok(None)

\* a call of operation op of the backend module
BackendCall(backend, op, task, device, token) ==
    [backend |-> backend, op |-> op, task |-> task, device |-> device, token |-> token]

Called(c) == [err |-> "none", val |-> None, calls |-> <<c>>]
Failed(e) == [err |-> e, val |-> None, calls |-> <<>>]

\* Route that calls a backend before it raises for an unknown provider
Route_CallsThenRaises(provider, backends, op, task, device, token) ==
    IF provider.kind # "Provider" THEN Failed("AttributeError")
    ELSE IF provider.name \in backends
         THEN Called(BackendCall(provider.name, op, task, device, token))
         ELSE [err |-> "UnsupportedProvider", val |-> None,
               calls |-> <<BackendCall(<<"tencent">>, op, task, device, token)>>]

\* the chain "if provider.name == ... else raise" over the backends an
\* operation has; provider is the object whose attribute name is read
Route(provider, backends, op, task, device, token) ==
    IF provider.kind # "Provider" THEN Failed("AttributeError")
    ELSE IF provider.name \in backends
         THEN Called(BackendCall(provider.name, op, task, device, token))
         ELSE Failed("UnsupportedProvider")

\* the token argument, or the stored token when it is None
TokenOr(token, stored) == IF token = None THEN stored ELSE Ok(token)

list_devices_ret(provider, token, dp, saved) ==
    LET p == Provider_from_name(IF provider = None THEN dp[thismodule] ELSE provider) IN
    IF p.err # "none" THEN Failed(p.err)
    ELSE LET t == TokenOr(token, Provider_get_token(p.val, dp, saved)) IN
         IF t.err # "none" THEN Failed(t.err)
         ELSE Route(p.val, {<<"tencent">>, <<"local">>}, "list_devices", None, None, t.val)

list_properties_ret(provider, device, token, dp, dd, saved) ==
    LET swap == provider # None /\ device = None
        provider1 == IF swap THEN None ELSE provider
        device1 == IF swap THEN provider ELSE device
        device2 == IF device1 = None THEN dd[thismodule] ELSE device1
        d == Device_from_name(device2, provider1, dp[thismodule])
    IN
    IF d.err # "none" THEN Failed(d.err)
    ELSE LET provider2 == IF provider1 = None THEN d.val.provider ELSE provider1
             t == TokenOr(token, Device_get_token(d.val, dp, saved))
         IN IF t.err # "none" THEN Failed(t.err)
            ELSE Route(provider2, {<<"tencent">>}, "list_properties", None, d.val, t.val)

\* get_task that attaches the device of a composite id without a provider
get_task_ret_NoProvider(taskid, provider, device, dp) ==
    LET swap == provider # None /\ device = None
        provider1 == IF swap THEN None ELSE provider
        device1 == IF swap THEN provider ELSE device
    IN
    IF device1 # None THEN
        LET d == Device_from_name(device1, provider1, dp[thismodule]) IN
        IF d.err # "none" THEN d ELSE Ok(Task(taskid, d.val))
    ELSE IF Len(Split(taskid, sep2)) > 1 THEN
        Ok(Task(Split(taskid, sep2)[2], DeviceObj(Split(taskid, sep2)[1], None)))
    ELSE Ok(Task(taskid, None))

\* get_task: the Task it returns
get_task_ret(taskid, provider, device, dp) ==
    LET swap == provider # None /\ device = None
        provider1 == IF swap THEN None ELSE provider
        device1 == IF swap THEN provider ELSE device
    IN
    IF device1 # None THEN
        LET d == Device_from_name(device1, provider1, dp[thismodule]) IN
        IF d.err # "none" THEN d ELSE Ok(Task(taskid, d.val))
    ELSE IF Len(Split(taskid, sep2)) > 1 THEN
        LET d == Device(Split(taskid, sep2)[1], None, dp[thismodule]) IN
        IF d.err # "none" THEN d ELSE Ok(Task(Split(taskid, sep2)[2], d.val))
    ELSE Ok(Task(taskid, None))

\* Task(taskid) for a string, the task itself otherwise (lines 249-252)
AsTask(task) == IF task.kind = "str" THEN Task(task.s, None) ELSE task

get_task_details_ret(taskid, token, dp, dd, saved) ==
    LET task == AsTask(taskid)
        device == IF task.device # None THEN task.device ELSE dd[thismodule]
        t == TokenOr(token, Device_get_token(device, dp, saved))
    IN
    IF t.err # "none" THEN Failed(t.err)
    ELSE Route(device.provider, {<<"tencent">>, <<"local">>}, "get_task_details",
               task, device, t.val)

submit_task_ret(provider, device, token, dp, dd, saved) ==
    LET device1 == IF device = None THEN get_device(dp, dd) ELSE Ok(device) IN
    IF device1.err # "none" THEN Failed(device1.err)
    ELSE
    LET bare == device1.val.kind = "str" /\ ~(Len(Split(device1.val.s, sep)) > 1)
        provider1 == IF bare /\ provider = None THEN get_provider(dp) ELSE Ok(provider)
    IN
    IF provider1.err # "none" THEN Failed(provider1.err)
    ELSE
    LET d == IF device1.val.kind = "str"
             THEN Device(device1.val.s, provider1.val, dp[thismodule])
             ELSE device1
    IN
    IF d.err # "none" THEN Failed(d.err)
    ELSE
    LET provider2 == IF provider1.val = None THEN d.val.provider ELSE provider1.val
        t == TokenOr(token, Device_get_token(d.val, dp, saved))
    IN
    IF t.err # "none" THEN Failed(t.err)
    ELSE Route(provider2, {<<"tencent">>, <<"local">>}, "submit_task", None, d.val, t.val)

\* resubmit_task and remove_task, which differ in the backend operation only
task_op_ret(op, task0, token, absent, dp, saved) ==
    LET task == AsTask(task0)
        device == Task_get_device(task, absent)
    IN
    IF device.err # "none" THEN Failed(device.err)
    ELSE IF device.val = None THEN Failed("AttributeError")
    ELSE LET t == TokenOr(token, Device_get_token(device.val, dp, saved)) IN
         IF t.err # "none" THEN Failed(t.err)
         ELSE Route(device.val.provider, {<<"tencent">>}, op, task, None, t.val)

list_tasks_ret(provider, device, token, dp, saved) ==
    LET p == Provider_from_name(IF provider = None THEN dp[thismodule] ELSE provider) IN
    IF p.err # "none" THEN Failed(p.err)
    ELSE
    LET t == TokenOr(token, Provider_get_token(p.val, dp, saved)) IN
    IF t.err # "none" THEN Failed(t.err)
    ELSE
    LET d == IF device # None THEN Device_from_name(device, None, dp[thismodule])
             ELSE Ok(None)
    IN
    IF d.err # "none" THEN Failed(d.err)
    ELSE Route(p.val, {<<"tencent">>, <<"local">>}, "list_tasks", None, d.val, t.val)

\* a call that returns or raises and changes nothing
Returns(op, provider, device, token, task, r, calls) ==
    /\ last' = Call(op, provider, device, token, FALSE, FALSE, task, r.err, r.val, calls)
    /\ UNCHANGED <<mods, default_provider, default_device, saved_token, authfile>>

list_devices(provider, token) ==
    LET r == list_devices_ret(provider, token, default_provider, saved_token) IN
    Returns("list_devices", provider, None, token, None, r, r.calls)

list_properties(provider, device, token) ==
    LET r == list_properties_ret(provider, device, token, default_provider,
                                 default_device, saved_token) IN
    Returns("list_properties", provider, device, token, None, r, r.calls)

get_task(taskid, provider, device) ==
    LET r == get_task_ret(taskid, provider, device, default_provider) IN
    Returns("get_task", provider, device, None, Str(taskid), r, <<>>)

get_task_details(taskid, token) ==
    LET r == get_task_details_ret(taskid, token, default_provider, default_device,
                                  saved_token) IN
    Returns("get_task_details", None, None, token, taskid, r, r.calls)

submit_task(provider, device, token) ==
    LET r == submit_task_ret(provider, device, token, default_provider,
                             default_device, saved_token) IN
    Returns("submit_task", provider, device, token, None, r, r.calls)

resubmit_task(task, token, absent) ==
    LET r == task_op_ret("resubmit_task", task, token, absent, default_provider,
                         saved_token) IN
    Returns("resubmit_task", None, None, token, task, r, r.calls)

remove_task(task, token, absent) ==
    LET r == task_op_ret("remove_task", task, token, absent, default_provider,
                         saved_token) IN
    Returns("remove_task", None, None, token, task, r, r.calls)

list_tasks(provider, device, token) ==
    LET r == list_tasks_ret(provider, device, token, default_provider, saved_token) IN
    Returns("list_tasks", provider, device, token, None, r, r.calls)

-----------------------------------------------------------------------------
(* Module import: lines 20, 58, 61, 108, 120 and 169 *)

Tencent == ProviderObj(<<"tencent">>)
InitModules == {<<"tensorcircuit">>, thismodule, <<"tensorcircuit", ".cloud.abstraction">>}
InitDevice == DeviceObj(<<"simulator:tc">>, Tencent)

\* the state a process has after importing the module with file f at authpath
Imported(f) ==
    LET dp == [m \in InitModules |-> Tencent]
        r == set_token_ret(None, None, None, TRUE, dp, EmptyDict, f)
    IN
    /\ r.err = "none"
    /\ Cardinality(DOMAIN r.val.saved) <= MaxTokens
    /\ mods' = InitModules
    /\ default_provider' = dp
    /\ default_device' = [m \in InitModules |-> InitDevice]
    /\ saved_token' = r.val.saved
    /\ authfile' = r.val.f
    /\ last' = Call("import", None, None, None, TRUE, TRUE, None, "none",
                    DictObj(r.val.saved), <<>>)

\* a new process imports the module
Restart == Imported(authfile)

\* a module of the program is imported and copies the defaults of thismodule
ImportModule(m) ==
    /\ m \notin mods
    /\ mods' = mods \cup {m}
    /\ default_provider' = [x \in mods \cup {m} |->
                               IF x = m THEN default_provider[thismodule]
                               ELSE default_provider[x]]
    /\ default_device' = [x \in mods \cup {m} |->
                               IF x = m THEN default_device[thismodule]
                               ELSE default_device[x]]
    /\ last' = Call("import_module", None, None, None, FALSE, FALSE, None, "none",
                    None, <<>>)
    /\ UNCHANGED <<saved_token, authfile>>

Init ==
    /\ mods = InitModules
    /\ default_provider = [m \in InitModules |-> Tencent]
    /\ default_device = [m \in InitModules |-> InitDevice]
    /\ saved_token = EmptyDict
    /\ authfile = DumpFile(EmptyDict)
    /\ last = CallRec("import", None, None, None, TRUE, TRUE, None, "none",
                      DictObj(EmptyDict), <<>>, NoPrev,
                      [saved |-> EmptyDict, f |-> Absent,
                       dp |-> [m \in InitModules |-> Tencent],
                       dd |-> [m \in InitModules |-> InitDevice]])

-----------------------------------------------------------------------------
(* The token store under every call of set_token and get_token *)

Local == ProviderObj(<<"local">>)
TokTokens == {None, Str(<<97, 233>>)}
TokProviders == {None, Str(<<"local">>)}
TokDevices == {None, Str(<<"d1">>), Str(<<"local", "::", "d1">>),
               DeviceObj(<<"d1">>, Tencent)}
TokFiles == {Absent, Garbage,
             JsonFile([k \in {<<"local", "::">>, <<"tencent", "::", "d1">>} |->
                          IF k = <<"local", "::">> THEN b64encode_s(<<233>>)
                          ELSE b64encode_s(<<97>>)]),
             JsonFile([k \in {<<"tencent", "::">>} |-> <<24, 16>>]),
             JsonFile([k \in {<<"tencent", "::", "d1">>} |-> <<48, 0, Pad, Pad>>])}

NextTok ==
    \/ \E t \in TokTokens, p \in TokProviders, d \in TokDevices, c \in BOOLEAN :
           set_token(t, p, d, c)
    \/ \E p \in TokProviders, d \in TokDevices : get_token(p, d)
    \/ \E p \in {Local, Str(<<"tencent">>)} : set_provider(p, TRUE)
    \/ \E f \in TokFiles : ExternalFile(f)
    \/ Restart

SpecTok == Init /\ [][NextTok]_vars

-----------------------------------------------------------------------------
(* The default context under every call of set_provider and set_device *)

Nonexistent == ProviderObj(<<"nonexistent">>)
Wrapper == <<"tensorcircuit", ".cloud.wrapper">>
Main == <<"__main__">>

CtxProviders == {None, Str(<<"local">>), Nonexistent}
CtxDevProviders == {None, Str(<<"local">>)}
CtxDevices == {None, Str(<<"d1">>), Str(<<"local", "::", "d1">>),
               DeviceObj(<<"d2">>, Nonexistent)}

NextCtx ==
    \/ \E p \in CtxProviders, g \in BOOLEAN : set_provider(p, g)
    \/ \E p \in CtxDevProviders, d \in CtxDevices, g \in BOOLEAN : set_device(p, d, g)
    \/ \E m \in {Wrapper, Main} : ImportModule(m)
    \/ \E d \in {Str(<<"d1">>)} : submit_task(None, d, None)

SpecCtx == Init /\ [][NextCtx]_vars

-----------------------------------------------------------------------------
(* The dispatch operations under every form of their arguments *)

DispProviders == {None, Str(<<"nonexistent">>), Local, Nonexistent}
DispDevices == {None, Str(<<"d1">>), Str(<<"nonexistent", "::", "d1">>),
                DeviceObj(<<"d1">>, Tencent)}
DispTokens == {None, Str(<<98>>)}
DispTasks == {Str(<<"t1">>), TaskObj(<<"t1">>, None),
              TaskObj(<<"t1">>, DeviceObj(<<"d1">>, Tencent)),
              TaskObj(<<"t1">>, DeviceObj(<<"d1">>, Nonexistent))}
DispTaskIds == {<<"t1">>, <<"nonexistent", "::", "d1", "~~", "t1">>,
                <<"tencent", "::", "d1", "~~", "a", "~~", "b">>}

NextDisp ==
    \/ \E p \in {Str(<<"tencent">>), Nonexistent} : set_provider(p, TRUE)
    \/ \E d \in {Str(<<"nonexistent", "::", "d1">>)} : set_device(None, d, TRUE)
    \/ \E d \in {None, Str(<<"d1">>)} : set_token(Str(<<97>>), None, d, FALSE)
    \/ \E p \in DispProviders, t \in DispTokens : list_devices(p, t)
    \/ \E p \in DispProviders, d \in DispDevices, t \in DispTokens :
           list_properties(p, d, t)
    \/ \E i \in DispTaskIds, p \in DispProviders, d \in DispDevices : get_task(i, p, d)
    \/ \E k \in DispTasks, t \in DispTokens : get_task_details(k, t)
    \/ \E p \in DispProviders, d \in DispDevices, t \in DispTokens : submit_task(p, d, t)
    \/ \E k \in DispTasks, t \in DispTokens, a \in {"raise", "none"} :
           resubmit_task(k, t, a)
    \/ \E k \in DispTasks, t \in DispTokens, a \in {"raise", "none"} :
           remove_task(k, t, a)
    \/ \E p \in DispProviders, d \in DispDevices, t \in DispTokens : list_tasks(p, d, t)

SpecDisp == Init /\ [][NextDisp]_vars

-----------------------------------------------------------------------------
(* Properties of the token store *)

\* the name of the provider and of the device a call names, read off the
\* arguments of the call
ArgProviderName(provider, dp) ==
    IF provider = None THEN dp[thismodule].name
    ELSE IF provider.kind = "str" THEN provider.s ELSE provider.name

ArgDeviceName(device) ==
    IF device.kind = "Device" THEN device.name
    ELSE IF Len(Split(device.s, sep)) > 1 THEN Split(device.s, sep)[2]
    ELSE device.s

ArgKey(provider, device, dp) ==
    IF device = None THEN ArgProviderName(provider, dp) \o sep
    ELSE ArgProviderName(provider, dp) \o sep \o ArgDeviceName(device)

FileKeys(f) == IF f.kind = "json" THEN DOMAIN f.obj ELSE {}

\* C1: after set_token(t, P, D, cached) has returned, get_token(P, D) returns t,
\* for every provider, device, secret and value of cached
C1_RoundTrip ==
    (last.op = "set_token" /\ last.err = "none" /\ last.token # None)
        => get_token_ret(last.provider, last.device, default_provider, saved_token)
               = Ok(last.token)

C1_Witness ==
    /\ last.op = "set_token" /\ last.err = "none" /\ last.token # None
    /\ last.device # None /\ ~last.cached
    /\ ArgKey(last.provider, last.device, default_provider) \in DOMAIN last.pre.saved
    /\ last.pre.saved[ArgKey(last.provider, last.device, default_provider)] # last.token.s

\* C2 as stated: whenever set_token(None) is called and the file exists, the
\* resulting mapping has every key of the file and of the memory, the memory's
\* values kept
C2_Original ==
    (last.op = "set_token" /\ last.token = None /\ last.pre.f.kind # "absent")
        => /\ FileKeys(last.pre.f) \subseteq DOMAIN saved_token
           /\ DOMAIN last.pre.saved \subseteq DOMAIN saved_token
           /\ \A k \in DOMAIN last.pre.saved : saved_token[k] = last.pre.saved[k]

\* C2 amended: when set_token(None) is called with cached true, the file exists
\* and the call returns, the resulting mapping has every key of the file and of
\* the memory; a key of the memory keeps the memory's value
C2_Merge ==
    (last.op = "set_token" /\ last.token = None /\ last.cached
       /\ last.err = "none" /\ last.pre.f.kind # "absent")
        => /\ FileKeys(last.pre.f) \subseteq DOMAIN saved_token
           /\ DOMAIN last.pre.saved \subseteq DOMAIN saved_token
           /\ \A k \in DOMAIN last.pre.saved : saved_token[k] = last.pre.saved[k]

C2_Witness ==
    /\ last.op = "set_token" /\ last.token = None /\ last.cached /\ last.err = "none"
    /\ last.pre.f.kind = "json"
    /\ \E k \in FileKeys(last.pre.f) \cap DOMAIN last.pre.saved :
           /\ last.pre.f.obj[k] # b64encode_s(last.pre.saved[k])
           /\ saved_token[k] = last.pre.saved[k]
    /\ FileKeys(last.pre.f) \ DOMAIN last.pre.saved # {}

\* C3: a process that imports the module right after a set_token with cached
\* true has returned holds the mapping the first process held
C3_PersistRoundTrip ==
    (last.op = "import" /\ last.prev.op = "set_token" /\ last.prev.cached
       /\ last.prev.err = "none")
        => saved_token = last.pre.saved

C3_Witness ==
    /\ last.op = "import" /\ last.prev.op = "set_token" /\ last.prev.cached
    /\ last.prev.err = "none" /\ last.prev.token # None
    /\ Cardinality(DOMAIN saved_token) = 2
    /\ \E k \in DOMAIN saved_token : saved_token[k] = <<233>>
    /\ \E k \in DOMAIN saved_token : saved_token[k] = <<97, 233>>

\* C4: a call never removes a key of the in-memory mapping, and the value of a
\* key changes only in a set_token call that gives a token for that key
C4_NoTokenLost ==
    (last.op # "import")
        => /\ DOMAIN last.pre.saved \subseteq DOMAIN saved_token
           /\ \A k \in DOMAIN last.pre.saved :
                  saved_token[k] # last.pre.saved[k]
                      => /\ last.op = "set_token" /\ last.token # None
                         /\ k = ArgKey(last.provider, last.device, last.pre.dp)

C4_Witness ==
    /\ last.op = "set_token" /\ last.token = None /\ last.cached /\ last.err = "none"
    /\ \E k \in FileKeys(last.pre.f) \cap DOMAIN last.pre.saved :
           last.pre.f.obj[k] # b64encode_s(saved_token[k])

\* C5: get_token returns the value stored under the exact key of the provider
\* and device it is given, None when that key is absent, and leaves the mapping
\* as it was
C5_ExactKey ==
    (last.op = "get_token" /\ last.err = "none")
        => LET key == ArgKey(last.provider, last.device, default_provider) IN
           /\ last.ret = IF key \in DOMAIN saved_token
                         THEN Str(saved_token[key]) ELSE None
           /\ saved_token = last.pre.saved

C5_Witness ==
    /\ last.op = "get_token" /\ last.err = "none" /\ last.device # None
    /\ last.ret = None
    /\ (ArgProviderName(last.provider, default_provider) \o sep) \in DOMAIN saved_token

-----------------------------------------------------------------------------
(* Properties of the default context and of the dispatch operations *)

PackageModules == {m \in mods : StartsWithPackage(m)}

\* C6: after set_provider(P) or set_device(D) with set_global true has returned,
\* every module of the package holds P (or D) as its default; any other call
\* leaves the default of every module as it was, and a module imported later
\* holds the default of thismodule
C6_GlobalVisibility ==
    \A m \in PackageModules :
        /\ IF last.op = "set_provider" /\ last.set_global /\ last.err = "none"
           THEN /\ default_provider[m] = last.ret
                /\ last.provider # None
                       => last.ret.name = ArgProviderName(last.provider, last.pre.dp)
           ELSE default_provider[m] =
                    IF m \in DOMAIN last.pre.dp THEN last.pre.dp[m]
                    ELSE default_provider[thismodule]
        /\ IF last.op = "set_device" /\ last.set_global /\ last.err = "none"
           THEN default_device[m] = last.ret
           ELSE default_device[m] =
                    IF m \in DOMAIN last.pre.dd THEN last.pre.dd[m]
                    ELSE default_device[thismodule]

C6_Witness ==
    /\ last.op = "set_provider" /\ last.set_global /\ last.err = "none"
    /\ Wrapper \in DOMAIN last.pre.dp
    /\ last.pre.dp[Wrapper] # last.ret
    /\ default_provider[Wrapper] = last.ret

DispatchOps == {"list_devices", "list_properties", "get_task_details", "submit_task",
                "resubmit_task", "remove_task", "list_tasks"}

\* the provider named by a device argument: the prefix of a string that has
\* one, the provider of a handle, the default provider for a bare name
DeviceProviderName(device, dp) ==
    IF device.kind = "Device" THEN device.provider.name
    ELSE IF Len(Split(device.s, sep)) > 1 THEN Split(device.s, sep)[1]
    ELSE dp[thismodule].name

\* the provider a dispatch call resolves to, read off its arguments; <<>> when
\* the arguments name none or name two
ResolvedProviderName(c) ==
    IF c.op \in {"list_devices", "list_tasks"}
        THEN ArgProviderName(c.provider, c.pre.dp)
    ELSE IF c.op \in {"list_properties", "submit_task"} THEN
        IF c.provider # None /\ c.device # None THEN
            IF c.device.kind = "str" /\ Len(Split(c.device.s, sep)) > 1
               /\ Split(c.device.s, sep)[1] # ArgProviderName(c.provider, c.pre.dp)
            THEN <<>>
            ELSE ArgProviderName(c.provider, c.pre.dp)
        ELSE IF c.provider = None /\ c.device # None
            THEN DeviceProviderName(c.device, c.pre.dp)
        ELSE IF c.provider = None THEN c.pre.dd[thismodule].provider.name
        ELSE IF c.op = "submit_task" THEN ArgProviderName(c.provider, c.pre.dp)
        ELSE <<>>
    ELSE IF c.task.kind = "Task" /\ c.task.device # None
        THEN c.task.device.provider.name
    ELSE IF c.op = "get_task_details" THEN c.pre.dd[thismodule].provider.name
    ELSE <<>>

\* C7: a dispatch call whose provider is not a registered backend fails with
\* UnsupportedProvider
C7_UnsupportedProvider ==
    (last.op \in DispatchOps /\ ResolvedProviderName(last) # <<>>
       /\ ResolvedProviderName(last) \notin avail_providers)
        => last.err = "UnsupportedProvider"

\* C8: a dispatch call makes one backend call when it returns and none when it
\* fails; the call is made with a resolved device and a registered backend;
\* the default context, the token store and the file are as before the call
C8_NoPartialSuccess ==
    (last.op \in DispatchOps)
        => /\ Len(last.calls) = IF last.err = "none" THEN 1 ELSE 0
           /\ \A i \in 1..Len(last.calls) :
                  /\ last.calls[i].backend \in avail_providers
                  /\ last.calls[i].op = last.op
                  /\ last.calls[i].device.kind \in {"None", "Device"}
                  /\ last.calls[i].token.kind \in {"None", "str"}
           /\ default_provider = last.pre.dp
           /\ default_device = last.pre.dd
           /\ saved_token = last.pre.saved
           /\ authfile = last.pre.f

C8_Witness ==
    /\ last.op = "submit_task" /\ last.err = "UnsupportedProvider"
    /\ last.calls = <<>>
    /\ DOMAIN saved_token # {}
    /\ last.device # None

\* C9: a call given a device string with the prefix of provider P1 and an
\* explicit provider P2 other than P1 fails with ProviderDeviceMismatch
C9_ProviderDeviceMismatch ==
    (/\ last.op \in {"set_device", "set_token", "get_token", "list_properties",
                     "submit_task", "list_tasks", "get_task"}
     /\ last.provider # None /\ last.device.kind = "str"
     /\ Len(Split(last.device.s, sep)) > 1
     /\ Split(last.device.s, sep)[1] # ArgProviderName(last.provider, last.pre.dp))
        => last.err = "ProviderDeviceMismatch"

\* C10: set_device called with a provider and no device fails with
\* AmbiguousDeviceSpecification and leaves the default device as it was
C10_AmbiguousDevice ==
    (last.op = "set_device" /\ last.provider # None /\ last.device = None)
        => /\ last.err = "AmbiguousDeviceSpecification"
           /\ last.ret = None
           /\ default_device = last.pre.dd

-----------------------------------------------------------------------------
(* Properties of names *)

IsBare(device) == device.kind = "str" /\ Len(Split(device.s, sep)) = 1
IsPrefixed(device) == device.kind = "str" /\ Len(Split(device.s, sep)) = 2

\* C11: set_device on the string P.name+sep+n without a provider and set_device
\* on the bare name n with the provider P give the same Device, whatever the
\* default provider is
C11_Canonical ==
    (last.op = "set_device" /\ last.device # None)
        => /\ (last.provider = None /\ IsPrefixed(last.device))
                  => /\ last.err = "none"
                     /\ Ok(last.ret) =
                            set_device_ret(Str(Split(last.device.s, sep)[1]),
                                           Str(Split(last.device.s, sep)[2]),
                                           last.pre.dp, last.pre.dd)
                     /\ last.ret = DeviceObj(Split(last.device.s, sep)[2],
                                             ProviderObj(Split(last.device.s, sep)[1]))
           /\ (last.provider # None /\ IsBare(last.device))
                  => /\ last.err = "none"
                     /\ Ok(last.ret) =
                            set_device_ret(None,
                                Str((ArgProviderName(last.provider, last.pre.dp) \o sep)
                                    \o last.device.s),
                                last.pre.dp, last.pre.dd)

C11_Witness ==
    /\ last.op = "set_device" /\ last.err = "none"
    /\ last.provider = None /\ IsPrefixed(last.device)
    /\ last.pre.dp[thismodule].name # Split(last.device.s, sep)[1]
    /\ last.ret.provider.name = Split(last.device.s, sep)[1]

\* the position of the first task separator of a string, 0 when it has none
FirstSep2(raw) ==
    IF \E i \in 1..Len(raw) : raw[i] = sep2[1]
    THEN CHOOSE i \in 1..Len(raw) :
             raw[i] = sep2[1] /\ \A k \in 1..(i - 1) : raw[k] # sep2[1]
    ELSE 0

\* C12: get_task without provider and device on d+sep2+t gives the Task with
\* id t, all of the string after the separator, and the device d; on a string
\* without the separator it gives the Task with that id and no device
C12_CompositeTaskId ==
    (last.op = "get_task" /\ last.provider = None /\ last.device = None)
        => LET raw == last.task.s
               i == FirstSep2(raw)
           IN /\ last.err = "none"
              /\ IF i = 0
                 THEN last.ret = TaskObj(raw, None)
                 ELSE /\ last.ret.id = SubSeq(raw, i + 1, Len(raw))
                      /\ last.ret.device.kind = "Device"
                      /\ last.ret.device.name = ArgDeviceName(Str(SubSeq(raw, 1, i - 1)))

\* C13: the Device returned by set_device, attached to a Task by get_task, held
\* as the default device or handed to a backend has a provider
HasProvider(d) == d.kind = "Device" /\ d.provider.kind = "Provider"

C13_DeviceHasProvider ==
    /\ \A m \in DOMAIN default_device : HasProvider(default_device[m])
    /\ (last.op = "set_device" /\ last.err = "none") => HasProvider(last.ret)
    /\ (last.op = "get_task" /\ last.err = "none" /\ last.ret.device # None)
           => HasProvider(last.ret.device)
    /\ (last.op \in DispatchOps)
           => \A i \in 1..Len(last.calls) :
                  last.calls[i].device # None => HasProvider(last.calls[i].device)

C13_Witness ==
    /\ last.op = "get_task" /\ last.err = "none"
    /\ last.provider = None /\ last.device = None
    /\ last.ret.device # None
    /\ HasProvider(last.ret.device)
    /\ default_device[thismodule].provider.name = <<"nonexistent">>

-----------------------------------------------------------------------------
(* Properties of the persisted file *)

\* a file that json.load or the decoding of one of its values rejects
Malformed(f) ==
    \/ f.kind = "garbage"
    \/ /\ f.kind = "json"
       /\ \E k \in DOMAIN f.obj :
              \/ B64Decode(f.obj[k]).err # "none"
              \/ Utf8Decode(B64Decode(f.obj[k]).val).err # "none"

\* the provider and device arguments of the call are accepted
ArgsResolve(c) == ResolvePD(c.provider, c.device, c.pre.dp).err = "none"

\* C14: set_token(None) with cached true fails with TokenStoreCorrupt on a
\* malformed file and leaves the mapping and the file as they were; with no
\* file it returns, the mapping is what it was and the file is created
C14_CorruptFile ==
    (last.op = "set_token" /\ last.token = None /\ last.cached /\ ArgsResolve(last))
        => /\ Malformed(last.pre.f)
                  => /\ last.err = "TokenStoreCorrupt"
                     /\ saved_token = last.pre.saved
                     /\ authfile = last.pre.f
           /\ last.pre.f.kind = "absent"
                  => /\ last.err = "none"
                     /\ saved_token = last.pre.saved
                     /\ authfile.kind = "json"

C14_Witness ==
    /\ last.op = "set_token" /\ last.token = None /\ last.cached
    /\ last.err = "TokenStoreCorrupt"
    /\ last.pre.f.kind = "json"
    /\ DOMAIN last.pre.saved # {}
    /\ saved_token = last.pre.saved

\* C16: after a set_token with cached true has returned, the file has the keys
\* of the in-memory mapping and no other, each with the base64 text of the
\* secret in memory
C16_FileMirrorsMemory ==
    (last.op = "set_token" /\ last.cached /\ last.err = "none")
        => /\ authfile.kind = "json"
           /\ DOMAIN authfile.obj = DOMAIN saved_token
           /\ \A k \in DOMAIN saved_token :
                  authfile.obj[k] = B64Encode(Utf8Encode(saved_token[k]))

C16_Witness ==
    /\ last.op = "set_token" /\ last.cached /\ last.err = "none"
    /\ last.token # None
    /\ FileKeys(last.pre.f) \ DOMAIN saved_token # {}
    /\ Cardinality(DOMAIN saved_token) = 2
    /\ DOMAIN authfile.obj = DOMAIN saved_token

\* C19: a set_token with cached false leaves the file as it was and does not
\* depend on it; with a token it sets the one key of the provider and device
\* and keeps every other entry, with None it leaves the mapping as it was
C19_NoPersistence ==
    (last.op = "set_token" /\ ~last.cached)
        => /\ authfile = last.pre.f
           /\ last.err = IF ArgsResolve(last) THEN "none"
                         ELSE ResolvePD(last.provider, last.device, last.pre.dp).err
           /\ (last.err # "none" \/ last.token = None) => saved_token = last.pre.saved
           /\ (last.err = "none" /\ last.token # None)
                  => LET key == ArgKey(last.provider, last.device, last.pre.dp) IN
                     /\ DOMAIN saved_token = DOMAIN last.pre.saved \cup {key}
                     /\ saved_token[key] = last.token.s
                     /\ \A k \in DOMAIN last.pre.saved \ {key} :
                            saved_token[k] = last.pre.saved[k]

C19_Witness ==
    /\ last.op = "set_token" /\ ~last.cached /\ last.err = "none"
    /\ last.token = None
    /\ last.pre.f.kind = "json"
    /\ FileKeys(last.pre.f) \ DOMAIN saved_token # {}
    /\ DOMAIN saved_token # {}

-----------------------------------------------------------------------------
(* Properties of the token handed to a backend *)

\* the device a dispatch call resolved: the device of the task for the
\* operations on a task, the device handed to the backend otherwise
ResolvedDevice(c) ==
    IF c.op \in {"resubmit_task", "remove_task"} THEN c.task.device ELSE c.device

\* the key of get_token(p, d) for the provider and device of a backend call:
\* the key of the provider when the call has no device, the key of the
\* device otherwise (under the dispatched provider for list_tasks, under the
\* provider of the device for the other operations)
ScopedKey(c) ==
    LET d == ResolvedDevice(c) IN
    IF d = None THEN c.backend \o sep
    ELSE IF c.op = "list_tasks" THEN (c.backend \o sep) \o d.name
    ELSE (d.provider.name \o sep) \o d.name

\* C15: a dispatch call made without a token hands the backend the token
\* stored under the key of the provider and device it resolved, None when no
\* token is stored there
C15_TokenScoping ==
    (last.op \in DispatchOps /\ last.token = None)
        => \A i \in 1..Len(last.calls) :
               last.calls[i].token =
                   IF ScopedKey(last.calls[i]) \in DOMAIN saved_token
                   THEN Str(saved_token[ScopedKey(last.calls[i])])
                   ELSE None

-----------------------------------------------------------------------------
(* Properties of reads of the default context *)

\* the Device a set_device or submit_task call resolved
ResolvedByCall(c) == IF c.op = "set_device" THEN c.ret ELSE c.calls[1].device

\* C17: set_device, get_device and submit_task given a bare device name and no
\* provider give a Device whose provider is the default provider at the time
\* of the call, the one the last set_provider with set_global true has set
C17_LiveDefaultProvider ==
    (/\ last.op \in {"set_device", "submit_task"} /\ last.err = "none"
     /\ last.provider = None /\ last.device # None /\ IsBare(last.device))
        => /\ ResolvedByCall(last).provider = last.pre.dp[thismodule]
           /\ ResolvedByCall(last).name = last.device.s

C17_Witness ==
    /\ last.op = "submit_task" /\ last.err = "none"
    /\ last.provider = None /\ last.device # None /\ IsBare(last.device)
    /\ default_provider[thismodule].name = <<"local">>
    /\ last.calls[1].device.provider.name = <<"local">>

\* C18: set_provider and set_device with set_global false leave the default
\* provider and device of every module as they were; set_provider returns the
\* provider it is given, and both return the current default without arguments
C18_ReadsDoNotMutate ==
    (last.op \in {"set_provider", "set_device"} /\ ~last.set_global)
        => /\ default_provider = last.pre.dp
           /\ default_device = last.pre.dd
           /\ (last.op = "set_provider")
                  => /\ last.err = "none"
                     /\ last.ret = IF last.provider = None
                                   THEN default_provider[thismodule]
                                   ELSE ProviderObj(ArgProviderName(last.provider,
                                                                    last.pre.dp))
           /\ (last.op = "set_device" /\ last.provider = None /\ last.device = None)
                  => /\ last.err = "none"
                     /\ last.ret = default_device[thismodule]

C18_Witness ==
    /\ last.op = "set_device" /\ ~last.set_global /\ last.err = "none"
    /\ last.device # None
    /\ last.ret # default_device[thismodule]
    /\ default_device[thismodule] # InitDevice

====
